---- MODULE Spec2Model ----
(***************************************************************************)
(* Model of the custodial account gateway (src/app.py): the /accounts      *)
(* request handler and the actions it dispatches to, running as concurrent *)
(* requests against the assignment table and the external ledger.          *)
(*                                                                         *)
(* Every rpc.call is one atomic step against the ledger; every database    *)
(* read or write of a handler is one step; the steps of different requests *)
(* interleave freely (the code takes no lock).                             *)
(***************************************************************************)
EXTENDS Integers, Sequences, FiniteSets, Bags, TLC

(* ------------------------------ bounds --------------------------------- *)

\* number of requests served in one behaviour
MaxRequests == 3

\* sessions in one reply of getaccountreceipts
MaxSessions == 2

\* concurrent request slots (gunicorn workers)
Procs == {1, 2}
\* registered users, identified by their username
Users == {"u1", "u2"}
\* the users that are logged in and send requests
Callers == {"u1"}
\* values a new_account form field may carry: a username or any other text
Labels == Users \cup {"label"}
\* account names the ledger hands out
Names == {"a0", "a1"}
\* current_user of a request that carries no login session
Anonymous == "anonymous"
\* request.method
Methods == {"GET", "POST"}
\* the keys accounts() looks for in request.form
FormKeys == {"list_receipts", "generate_beacon", "clear_beacons",
             "remove_account", "new_account"}

(* --------------------------- configuration ----------------------------- *)

\* int(config['Account']['AccountsPerUser'])
AccountsPerUser == 1
\* config['Account']['Cap'] and config['Account']['StartBalance']
Cap == "1000sats"
StartBalance == "10sats"
\* config['Beacon']['RelayLocation']
RelayLocation == "relay.example:443"

(* ------------------------------ values --------------------------------- *)

NoName == "none"
NoError == [msg |-> "none", n |-> 0]
Err(m) == [msg |-> m, n |-> 0]
\* "max %d accounts per user" % limit
CapExceeded(limit) == [msg |-> "max accounts per user", n |-> limit]
\* the wrappers' except branch
RpcException == [success |-> FALSE, error |-> "RPC exception", name |-> NoName]
\* what the ledger answers
LedgerOk(name) == [success |-> TRUE, error |-> "none", name |-> name]
LedgerRejected == [success |-> FALSE, error |-> "ledger error", name |-> NoName]
NoInfo == [success |-> FALSE, error |-> "none", name |-> NoName]
\* no such account in the ledger
NoAccount == [cap |-> NoName, wad |-> NoName]

\* how an rpc.call can end: the ledger runs the command and answers ok, the
\* ledger rejects it, the call raises before the ledger ran it ("raise"), or
\* the ledger ran it and the call raises on the reply ("lost")
Outcomes == {"ok", "reject", "raise", "lost"}
\* what the wrapper sees of an outcome
Seen(out) == IF out = "lost" THEN "raise" ELSE out

VARIABLES
    assignments,  \* the AccountAssignment table: a bag of rows [user, account]
    ledger,       \* names of the accounts that exist in the ledger
    book,         \* the ledger's accounts: name -> [cap, wad], see NoAccount
    connected,    \* accounts with an outstanding beacon
    nbeacons,     \* beacons constructed so far (MoneysocketBeacon() calls)
    sent,         \* the beacon strings of the connect commands issued, in order
    req,          \* the request each worker is serving (its locals, see Idle)
    nreq          \* requests begun

vars == <<assignments, ledger, book, connected, nbeacons, sent, req, nreq>>

\* a worker without a request; the fields are the locals of a request:
\*   pc      where the handler is
\*   user    current_user
\*   method  request.method
\*   form    the keys of request.form
\*   action  the action accounts() dispatched to
\*   arg     request.form[action]
\*   ua_len  len(ua) read by new_account
\*   info    the last wrapper result
\*   error   the error= handed to render_accounts
\*   page    the template rendered
\*   accounts  the accounts= handed to the accounts template
\*   raw     info['receipts'] of the getaccountreceipts reply
\*   receipts  the receipts= handed to the receipts template
\*   log     the rpc.calls made: [cmd, account, out]
Idle == [pc |-> "idle", user |-> NoName, method |-> "none", form |-> {},
         action |-> "none", arg |-> NoName,
         ua_len |-> 0, info |-> NoInfo, error |-> NoError, page |-> "none",
         accounts |-> NoInfo, raw |-> <<>>, receipts |-> <<>>, log |-> <<>>]

(* ------------------------------ helpers -------------------------------- *)

Row(u, account) == [user |-> u, account |-> account]

\* current_user.account_assignments: the rows of user u
RowsOfUser(u) == {r \in BagToSet(assignments) : r.user = u}

RECURSIVE Copies(_)
Copies(rows) ==
    IF rows = {} THEN 0
    ELSE LET r == CHOOSE x \in rows : TRUE
         IN  CopiesIn(r, assignments) + Copies(rows \ {r})

\* [aa.account_name for aa in current_user.account_assignments]: the account
\* names of u's rows, a name once per row
user_accounts(u) == [r \in RowsOfUser(u) |-> CopiesIn(r, assignments)]

\* len(ua)
len(ua) == Copies(DOMAIN ua)

\* AccountAssignment.query.filter_by(account_name=account): the matching rows
RowsOf(account) == {r \in BagToSet(assignments) : r.account = account}

\* UserModel.query.filter_by(username=username).first()
UserByName(username) == IF username \in Users THEN username ELSE NoName

Entry(cmd, account, out) == [cmd |-> cmd, account |-> account, out |-> Seen(out)]

\* the response is out: rendered ("done") or an unhandled exception ("fault")
Finished(r) == r.pc \in {"done", "fault"}
Running(r) == r.pc \notin {"idle", "done", "fault"}

\* request p moves to r; the workers whose response is out are free again
Step(p, r) ==
    req' = [q \in Procs |->
              IF q = p THEN r ELSE IF Finished(req[q]) THEN Idle ELSE req[q]]

(* ------------------------------- Init ---------------------------------- *)

Init ==
    /\ assignments = EmptyBag
    /\ ledger = {}
    /\ book = [n \in Names |-> NoAccount]
    /\ connected = {}
    /\ nbeacons = 0
    /\ sent = <<>>
    /\ req = [p \in Procs |-> Idle]
    /\ nreq = 0

(* ----------------------------- the ledger ----------------------------- *)

\* create -a <label> -c <cap> <startBalance>: the account the ledger opens
\* (a '-x' argument names the option whose value follows it, the argument
\* left over is the start balance)
RECURSIVE Positional(_)
Positional(args) ==
    IF args = <<>> THEN <<>>
    ELSE IF Head(args) \in {"-a", "-c"} THEN Positional(Tail(Tail(args)))
    ELSE <<Head(args)>> \o Positional(Tail(args))

Option(args, flag) ==
    LET i == CHOOSE j \in DOMAIN args : args[j] = flag IN args[i + 1]

Opened(args) ==
    [cap |-> Option(Tail(args), "-c"), wad |-> Positional(Tail(args))[1]]

\* an amount as the ledger's replies carry it, and its display string:
\* str(Wad.from_dict(d))
wad_dict(amount) == [wad |-> amount]
Wad_str(d) == "Wad " \o d.wad

\* getaccountinfo <accountName>...: one {name, wad, cap} per name given that
\* the ledger holds
AccountInfo(names) ==
    {[name |-> n, wad |-> wad_dict(book[n].wad), cap |-> wad_dict(book[n].cap)] :
        n \in names \cap ledger}

\* the ledger runs the command (whether or not the reply arrives)
Runs(out) == out \in {"ok", "lost"}

\* a command on an account runs only if the ledger knows the account
CanEnd(out, account) == Runs(out) => account \in ledger

(* ---------------------------- rpc wrappers ----------------------------- *)

\* the result of a call that raised and that no except clause converted
Propagated == [success |-> FALSE, error |-> "raised", name |-> NoName]

\* a wrapper without the try/except: the exception of rpc.call goes through
Wrapper_NoExcept(out, reply) ==
    CASE Seen(out) = "ok" -> reply
      [] Seen(out) = "reject" -> LedgerRejected
      [] OTHER -> Propagated

\* try: info = rpc.call(...)  except Exception: return {'success': False,
\* 'error': "RPC exception"}  return info
Wrapper(out, reply) ==
    CASE Seen(out) = "ok" -> reply
      [] Seen(out) = "reject" -> LedgerRejected
      [] OTHER -> RpcException

\* the error= of render_accounts(error=info['error'])
InfoError(inf) == IF inf.success THEN NoError ELSE Err(inf.error)

\* the request after a wrapper returned inf to `if not info['success']:
\* return render_accounts(error=info['error'])`: on to `next` on success
Continue(r, inf, next) ==
    [r EXCEPT !.info = inf,
              !.error = InfoError(inf),
              !.pc = IF inf = Propagated THEN "fault"
                     ELSE IF inf.success THEN next ELSE "render"]

Logged(r, cmd, account, out) == [r EXCEPT !.log = Append(@, Entry(cmd, account, out))]

(* --------------------------- the dispatcher ---------------------------- *)

Actions == {"list_receipts", "generate_beacon", "clear_beacons",
            "remove_account", "new_account", "unknown", "get"}

\* the values request.form[action] may carry
Args(act) ==
    CASE act = "new_account" -> Labels
      [] act \in {"unknown", "get"} -> {NoName}
      [] OTHER -> Names

\* where accounts() sends a request
Entry_pc(act) ==
    CASE act = "list_receipts" -> "receipts"
      [] act = "generate_beacon" -> "connect"
      [] act = "clear_beacons" -> "clear"
      [] act = "remove_account" -> "clear"
      [] act = "new_account" -> "check"
      [] OTHER -> "render"

\* the dispatch falling through: every key present, one after the other
\* (the last one wins)
Dispatch_Last(method, form) ==
    IF method # "POST" THEN "get"
    ELSE IF "new_account" \in form THEN "new_account"
    ELSE IF "remove_account" \in form THEN "remove_account"
    ELSE IF "clear_beacons" \in form THEN "clear_beacons"
    ELSE IF "generate_beacon" \in form THEN "generate_beacon"
    ELSE IF "list_receipts" \in form THEN "list_receipts"
    ELSE "unknown"

\* if request.method == 'POST': if 'list_receipts' in request.form.keys(): ...
\* elif 'generate_beacon' ... elif 'clear_beacons' ... elif 'remove_account'
\* ... elif 'new_account' ... else: unknown action;  else: render_accounts()
Dispatch(method, form) ==
    IF method # "POST" THEN "get"
    ELSE IF "list_receipts" \in form THEN "list_receipts"
    ELSE IF "generate_beacon" \in form THEN "generate_beacon"
    ELSE IF "clear_beacons" \in form THEN "clear_beacons"
    ELSE IF "remove_account" \in form THEN "remove_account"
    ELSE IF "new_account" \in form THEN "new_account"
    ELSE "unknown"

\* a login check that lets every request through
is_authenticated_Always(u) == TRUE

\* current_user.is_authenticated
is_authenticated(u) == u \in Users

\* redirect(app.config['BASE_URL'] + path)
redirect_path(path) == "redirect:BASE_URL" \o path

\* accounts(): a request arrives; without a login it is redirected to /login,
\* else it is dispatched on its method and the keys of its form (a is the
\* value the form carries under the key dispatched on)
Begin(p, u, method, form, a) ==
    /\ ~Running(req[p])
    /\ nreq < MaxRequests
    /\ nreq' = nreq + 1
    /\ LET act == Dispatch(method, form)
           r == [Idle EXCEPT !.user = u, !.method = method, !.form = form]
       IN  IF ~is_authenticated(u)
           THEN /\ a = NoName
                /\ Step(p, [r EXCEPT !.pc = "done", !.page = redirect_path("/login")])
           ELSE /\ a \in Args(act)
                /\ Step(p, [r EXCEPT !.pc = Entry_pc(act), !.action = act,
                                     !.arg = a,
                                     !.error = IF act = "unknown"
                                               THEN Err("unknown action")
                                               ELSE NoError])
    /\ UNCHANGED <<assignments, ledger, book, connected, nbeacons, sent>>

(* ----------------------------- new_account ----------------------------- *)

\* the cap check off by one: len(ua) > limit
AtCap_OffByOne(n) == n > AccountsPerUser

\* len(ua) >= limit
AtCap(n) == n >= AccountsPerUser

\* ua = user_accounts(); if len(ua) >= limit: return render_accounts(error=...)
NewCheck(p) ==
    /\ req[p].pc = "check"
    /\ LET n == len(user_accounts(req[p].user))
       IN  Step(p, IF AtCap(n)
                   THEN [req[p] EXCEPT !.ua_len = n, !.pc = "render",
                                       !.error = CapExceeded(AccountsPerUser)]
                   ELSE [req[p] EXCEPT !.ua_len = n, !.pc = "create"])
    /\ UNCHANGED <<assignments, ledger, book, connected, nbeacons, sent, nreq>>

\* cap = config['Account']['Cap']; start = config['Account']['StartBalance']
\* rpc.call(['create', '-a', username, '-c', cap, start])
create_args(username) == <<"create", "-a", username, "-c", Cap, StartBalance>>

\* CreateRpc without `if not info['success']: return ...`
CreateRpc_NoCheck(p, out, n) ==
    /\ req[p].pc = "create"
    /\ IF Runs(out) THEN n \in Names \ ledger ELSE n = NoName
    /\ ledger' = IF Runs(out) THEN ledger \cup {n} ELSE ledger
    /\ book' = IF Runs(out)
               THEN [book EXCEPT ![n] = Opened(create_args(req[p].arg))]
               ELSE book
    /\ Step(p, [Logged(req[p], "create", req[p].arg, out)
                 EXCEPT !.info = Wrapper(out, LedgerOk(n)),
                        !.pc = "assign"])
    /\ UNCHANGED <<assignments, connected, nbeacons, sent, nreq>>

\* info = create_rpc(username): the ledger makes an account under a name it
\* does not hold and returns the name
CreateRpc(p, out, n) ==
    /\ req[p].pc = "create"
    /\ IF Runs(out) THEN n \in Names \ ledger ELSE n = NoName
    /\ ledger' = IF Runs(out) THEN ledger \cup {n} ELSE ledger
    /\ book' = IF Runs(out)
               THEN [book EXCEPT ![n] = Opened(create_args(req[p].arg))]
               ELSE book
    /\ Step(p, Continue(Logged(req[p], "create", req[p].arg, out),
                        Wrapper(out, LedgerOk(n)), "assign"))
    /\ UNCHANGED <<assignments, connected, nbeacons, sent, nreq>>

\* u = UserModel.query.filter_by(username=username).first()
AssignOwner(r) == UserByName(r.arg)

\* aa = AccountAssignment(user_id=u.id, account_name=account_name); add; commit
\* (u.id raises when no user carries the requested username)
NewAssign(p) ==
    /\ req[p].pc = "assign"
    /\ IF AssignOwner(req[p]) = NoName
       THEN /\ Step(p, [req[p] EXCEPT !.pc = "fault"])
            /\ UNCHANGED assignments
       ELSE /\ assignments' = assignments (+)
                   SetToBag({Row(AssignOwner(req[p]), req[p].info.name)})
            /\ Step(p, [req[p] EXCEPT !.pc = "render"])
    /\ UNCHANGED <<ledger, book, connected, nbeacons, sent, nreq>>

(* ------------------- remove_account and clear_beacons ------------------ *)

\* where the request goes after a successful clear_rpc
AfterClear(act) == IF act = "remove_account" THEN "rm" ELSE "render"

\* ClearRpc without `if not info['success']: return ...`
ClearRpc_NoCheck(p, out) ==
    /\ req[p].pc = "clear"
    /\ CanEnd(out, req[p].arg)
    /\ connected' = IF Runs(out) THEN connected \ {req[p].arg} ELSE connected
    /\ UNCHANGED <<nbeacons, sent>>
    /\ Step(p, [Logged(req[p], "clear", req[p].arg, out)
                 EXCEPT !.info = Wrapper(out, LedgerOk(NoName)),
                        !.pc = AfterClear(req[p].action)])
    /\ UNCHANGED <<assignments, ledger, book, nreq>>

\* info = clear_rpc(account): the ledger drops the account's beacons
ClearRpc(p, out) ==
    /\ req[p].pc = "clear"
    /\ CanEnd(out, req[p].arg)
    /\ connected' = IF Runs(out) THEN connected \ {req[p].arg} ELSE connected
    /\ UNCHANGED <<nbeacons, sent>>
    /\ Step(p, Continue(Logged(req[p], "clear", req[p].arg, out),
                        Wrapper(out, LedgerOk(NoName)), AfterClear(req[p].action)))
    /\ UNCHANGED <<assignments, ledger, book, nreq>>

\* RmRpc without `if not info['success']: return ...`
RmRpc_NoCheck(p, out) ==
    /\ req[p].pc = "rm"
    /\ CanEnd(out, req[p].arg)
    /\ ledger' = IF Runs(out) THEN ledger \ {req[p].arg} ELSE ledger
    /\ book' = IF Runs(out) THEN [book EXCEPT ![req[p].arg] = NoAccount] ELSE book
    /\ connected' = IF Runs(out) THEN connected \ {req[p].arg} ELSE connected
    /\ UNCHANGED <<nbeacons, sent>>
    /\ Step(p, [Logged(req[p], "rm", req[p].arg, out)
                 EXCEPT !.info = Wrapper(out, LedgerOk(NoName)),
                        !.pc = "unassign"])
    /\ UNCHANGED <<assignments, nreq>>

\* info = rm_rpc(account): the ledger deletes the account
RmRpc(p, out) ==
    /\ req[p].pc = "rm"
    /\ CanEnd(out, req[p].arg)
    /\ ledger' = IF Runs(out) THEN ledger \ {req[p].arg} ELSE ledger
    /\ book' = IF Runs(out) THEN [book EXCEPT ![req[p].arg] = NoAccount] ELSE book
    /\ connected' = IF Runs(out) THEN connected \ {req[p].arg} ELSE connected
    /\ UNCHANGED <<nbeacons, sent>>
    /\ Step(p, Continue(Logged(req[p], "rm", req[p].arg, out),
                        Wrapper(out, LedgerOk(NoName)), "unassign"))
    /\ UNCHANGED <<assignments, nreq>>

\* aa = AccountAssignment.query.filter_by(account_name=account).first()
\* db.session.delete(aa); db.session.commit()
\* (delete(None) raises; the query states no order, so first() is any match)
Unassign(p) ==
    /\ req[p].pc = "unassign"
    /\ IF RowsOf(req[p].arg) = {}
       THEN /\ Step(p, [req[p] EXCEPT !.pc = "fault"])
            /\ UNCHANGED assignments
       ELSE /\ \E r \in RowsOf(req[p].arg) : assignments' = assignments (-) SetToBag({r})
            /\ Step(p, [req[p] EXCEPT !.pc = "render"])
    /\ UNCHANGED <<ledger, book, connected, nbeacons, sent, nreq>>

(* ---------------------------- generate_beacon -------------------------- *)

\* beacon = MoneysocketBeacon(): a beacon with a shared seed no earlier
\* beacon carries (n beacons were built before) and no location yet
MoneysocketBeacon(n) == [seed |-> n + 1, locations |-> <<>>]

\* location = WebsocketLocation(config['Beacon']['RelayLocation'])
\* beacon.add_location(location)
add_location(beacon, location) ==
    [beacon EXCEPT !.locations = Append(@, location)]

RECURSIVE Joined(_)
Joined(locations) ==
    IF locations = <<>> THEN ""
    ELSE "/" \o Head(locations) \o Joined(Tail(locations))

\* str(beacon): the seed and the locations in one string
beacon_str(beacon) == "moneysocket1" \o ToString(beacon.seed) \o Joined(beacon.locations)

\* generate_beacon handing out one beacon built at start-up
connect_args_Shared(account, n) ==
    [account |-> account,
     beacon |-> beacon_str(add_location(MoneysocketBeacon(0), RelayLocation))]

\* the command of connect_rpc(account, str(beacon)) in generate_beacon
connect_args(account, n) ==
    [account |-> account,
     beacon |-> beacon_str(add_location(MoneysocketBeacon(n), RelayLocation))]

\* a removal of the account is between its clear and its rm
BeingRemoved(account) ==
    \E q \in Procs : /\ req[q].action = "remove_account"
                     /\ req[q].pc = "rm"
                     /\ req[q].arg = account

\* ConnectRpc held back while the account is being removed
ConnectRpc_Locked(p, out) ==
    /\ req[p].pc = "connect"
    /\ ~BeingRemoved(req[p].arg)
    /\ CanEnd(out, req[p].arg)
    /\ connected' = IF Runs(out) THEN connected \cup {req[p].arg} ELSE connected
    /\ nbeacons' = nbeacons + 1
    /\ sent' = Append(sent, connect_args(req[p].arg, nbeacons).beacon)
    /\ Step(p, Continue(Logged(req[p], "connect", req[p].arg, out),
                        Wrapper(out, LedgerOk(NoName)), "render"))
    /\ UNCHANGED <<assignments, ledger, book, nreq>>

\* beacon = MoneysocketBeacon(); ...; info = connect_rpc(account, str(beacon)):
\* the ledger binds the beacon to the account
ConnectRpc(p, out) ==
    /\ req[p].pc = "connect"
    /\ CanEnd(out, req[p].arg)
    /\ connected' = IF Runs(out) THEN connected \cup {req[p].arg} ELSE connected
    /\ nbeacons' = nbeacons + 1
    /\ sent' = Append(sent, connect_args(req[p].arg, nbeacons).beacon)
    /\ Step(p, Continue(Logged(req[p], "connect", req[p].arg, out),
                        Wrapper(out, LedgerOk(NoName)), "render"))
    /\ UNCHANGED <<assignments, ledger, book, nreq>>

(* ----------------------------- list_receipts --------------------------- *)

\* strings whose characters matter are sequences of characters
Lower == <<"a", "d", "e", "i", "n", "p", "t", "w", "x", "y">>
Upper == <<"A", "D", "E", "I", "N", "P", "T", "W", "X", "Y">>
IndexIn(c, table) == CHOOSE i \in DOMAIN table : table[i] = c
IsLower(c) == \E i \in DOMAIN Lower : Lower[i] = c
IsUpper(c) == \E i \in DOMAIN Upper : Upper[i] = c
IsLetter(c) == IsLower(c) \/ IsUpper(c)
upper(c) == IF IsLower(c) THEN Upper[IndexIn(c, Lower)] ELSE c
lower(c) == IF IsUpper(c) THEN Lower[IndexIn(c, Upper)] ELSE c

\* v.replace(old, new) for single characters
replace(str, old, new) == [i \in DOMAIN str |-> IF str[i] = old THEN new ELSE str[i]]

\* str.title(): a letter is upper case after a non-letter and at the start,
\* lower case after a letter; other characters stay
title(str) ==
    [i \in DOMAIN str |->
        IF i > 1 /\ IsLetter(str[i - 1]) THEN lower(str[i]) ELSE upper(str[i])]

\* time.ctime(v)
ctime(v) == "ctime " \o ToString(v)

\* the reserved field names and the label of the amount
K_type == <<"t", "y", "p", "e">>
K_time == <<"t", "i", "m", "e">>
K_wad == <<"w", "a", "d">>
L_Wad == <<"W", "a", "d">>

\* the loop body appending at the front of values
FormatField_Prepend(new_entry, k, v) ==
    IF k = K_type THEN ("type" :> title(replace(v, "_", " "))) @@ new_entry
    ELSE IF k = K_time THEN ("time" :> ctime(v)) @@ new_entry
    ELSE IF k = K_wad
         THEN [new_entry EXCEPT !["values"] = <<<<L_Wad, Wad_str(v)>>>> \o @]
    ELSE [new_entry EXCEPT !["values"] = <<<<title(k), ToString(v)>>>> \o @]

\* the body of `for k, v in entry.items():` in format_receipts
FormatField(new_entry, k, v) ==
    IF k = K_type THEN ("type" :> title(replace(v, "_", " "))) @@ new_entry
    ELSE IF k = K_time THEN ("time" :> ctime(v)) @@ new_entry
    ELSE IF k = K_wad
         THEN [new_entry EXCEPT !["values"] = Append(@, <<L_Wad, Wad_str(v)>>)]
    ELSE [new_entry EXCEPT !["values"] = Append(@, <<title(k), ToString(v)>>)]

\* new_entry = {'values': []}; for k, v in entry.items(): ...
RECURSIVE FormatEntry(_, _)
FormatEntry(items, new_entry) ==
    IF items = <<>> THEN new_entry
    ELSE FormatEntry(Tail(items), FormatField(new_entry, Head(items)[1], Head(items)[2]))

\* new_session = {'entries': []}; for entry in session: ... append(new_entry)
FormatSession(session) ==
    [entries |-> [j \in DOMAIN session |-> FormatEntry(session[j], [values |-> <<>>])]]

\* format_receipts(receipts): new = []; for session in receipts: ...
\* new.append(new_session); return new
format_receipts(receipts) == [i \in DOMAIN receipts |-> FormatSession(receipts[i])]

\* entries of a receipt session: the items of a dict, in their order
PayIn ==
    << <<K_type, <<"p", "a", "y", "_", "i", "n">> >>, <<K_time, 17>>,
       <<K_wad, wad_dict("5sats")>> >>
Paid ==
    << <<K_wad, wad_dict("5sats")>>, <<<<"t", "x", "_", "i", "d">>, 7>>,
       <<K_type, <<"P", "A", "I", "D">> >> >>
Untyped ==
    << <<<<"n", "_", "t", "x">>, 7>>, <<K_time, 17>>, <<<<"i", "d">>, 3>> >>
EntryInputs == {<<>>, PayIn, Paid, Untyped}

\* sessions of no, one or two entries
SessionInputs ==
    {<<>>} \cup {<<e>> : e \in EntryInputs} \cup {<<e, f>> : e, f \in EntryInputs}

\* the replies that format_receipts is applied to
ReceiptInputs == UNION {[1..n -> SessionInputs] : n \in 0..MaxSessions}

\* the replies of the ledger in the requests of the gateway
LedgerReceipts == {<<>>, << <<PayIn, Paid>> >>}

\* the page a request that is done has rendered
Rendered(r, template) == [r EXCEPT !.page = IF r.pc = "done" THEN template ELSE @]

\* render_receipts: info = getaccountreceipts_rpc(account); the receipts page
\* on success, else render_accounts(error=info['error'])
ReceiptsRpc(p, out, receipts) ==
    /\ req[p].pc = "receipts"
    /\ out # "lost"
    /\ CanEnd(out, req[p].arg)
    /\ receipts \in IF out = "ok" THEN LedgerReceipts ELSE {<<>>}
    /\ Step(p, Rendered(Continue([Logged(req[p], "getaccountreceipts", req[p].arg, out)
                                    EXCEPT !.raw = receipts,
                                           !.receipts = format_receipts(receipts)],
                                 Wrapper(out, LedgerOk(NoName)), "done"),
                        "receipts"))
    /\ UNCHANGED <<assignments, ledger, book, connected, nbeacons, sent, nreq>>

(* ---------------------------- render_accounts -------------------------- *)

\* account['wad'] = str(Wad.from_dict(account['wad'])), and 'cap' likewise
Displayed(accounts) ==
    {[name |-> a.name, wad |-> Wad_str(a.wad), cap |-> Wad_str(a.cap)] :
        a \in accounts}

\* the result of getaccountinfo_rpc() for the reply `accounts`
AccountsOk(accounts) ==
    [success |-> TRUE, error |-> "none", name |-> NoName, accounts |-> accounts]

\* ua = user_accounts(); info = rpc.call(['getaccountinfo'] + ua); the
\* accounts of the reply with their amounts as display strings;
\* render_template("accounts.html", ...)
\* (a reply without 'accounts' ends in the same except branch as a raise)
Render(p, out) ==
    /\ req[p].pc = "render"
    /\ out \in {"ok", "raise"}
    /\ LET ua == user_accounts(req[p].user)
           names == {r.account : r \in DOMAIN ua}
           accounts == Wrapper(out, AccountsOk(Displayed(AccountInfo(names))))
       IN  Step(p, Rendered([Logged(req[p], "getaccountinfo", NoName, out)
                               EXCEPT !.accounts = accounts,
                                      !.pc = IF accounts = Propagated
                                             THEN "fault" ELSE "done"],
                            "accounts"))
    /\ UNCHANGED <<assignments, ledger, book, connected, nbeacons, sent, nreq>>

(* ------------------------------- Next ---------------------------------- *)

\* the forms of the concurrent specification: no key, or one
OneKeyForms(method) ==
    IF method = "POST" THEN {{}} \cup {{k} : k \in FormKeys} ELSE {{}}

Next ==
    \/ \E p \in Procs, u \in Callers \cup {Anonymous}, m \in Methods :
          \E f \in OneKeyForms(m) : \E a \in Args(Dispatch(m, f)) \cup {NoName} :
             Begin(p, u, m, f, a)
    \/ \E p \in Procs : NewCheck(p)
    \/ \E p \in Procs, out \in Outcomes, n \in Names \cup {NoName} : CreateRpc(p, out, n)
    \/ \E p \in Procs : NewAssign(p)
    \/ \E p \in Procs, out \in Outcomes : ClearRpc(p, out)
    \/ \E p \in Procs, out \in Outcomes : RmRpc(p, out)
    \/ \E p \in Procs : Unassign(p)
    \/ \E p \in Procs, out \in Outcomes : ConnectRpc(p, out)
    \/ \E p \in Procs, out \in Outcomes, receipts \in LedgerReceipts :
          ReceiptsRpc(p, out, receipts)
    \/ \E p \in Procs, out \in Outcomes : Render(p, out)

Spec == Init /\ [][Next]_vars

\* the worker of the sequential specification
SeqProcs == {1}

\* the forms of the sequential specification: a POST with any set of the
\* keys, a GET with none or all of them
AnyForms(method) ==
    IF method = "POST" THEN SUBSET FormKeys ELSE {{}, FormKeys}

\* the same handlers in a single synchronous worker: one request at a time,
\* sent by any user or by a caller without login, with any set of form keys
SeqNext ==
    \/ \E p \in SeqProcs, u \in Users \cup {Anonymous}, m \in Methods :
          \E f \in AnyForms(m) : \E a \in Args(Dispatch(m, f)) \cup {NoName} :
             Begin(p, u, m, f, a)
    \/ \E p \in SeqProcs : NewCheck(p)
    \/ \E p \in SeqProcs, out \in Outcomes, n \in Names \cup {NoName} :
          CreateRpc(p, out, n)
    \/ \E p \in SeqProcs : NewAssign(p)
    \/ \E p \in SeqProcs, out \in Outcomes : ClearRpc(p, out)
    \/ \E p \in SeqProcs, out \in Outcomes : RmRpc(p, out)
    \/ \E p \in SeqProcs : Unassign(p)
    \/ \E p \in SeqProcs, out \in Outcomes : ConnectRpc(p, out)
    \/ \E p \in SeqProcs, out \in Outcomes, receipts \in LedgerReceipts :
          ReceiptsRpc(p, out, receipts)
    \/ \E p \in SeqProcs, out \in Outcomes : Render(p, out)

SpecSeq == Init /\ [][SeqNext]_vars

(* ------------------------ format_receipts alone ------------------------ *)

\* format_receipts is handed a reply
InitFormat ==
    /\ assignments = EmptyBag
    /\ ledger = {}
    /\ book = [n \in Names |-> NoAccount]
    /\ connected = {}
    /\ nbeacons = 0
    /\ sent = <<>>
    /\ nreq = 0
    /\ req \in {[p \in Procs |->
                   IF p \in SeqProcs THEN [Idle EXCEPT !.pc = "format", !.raw = receipts]
                   ELSE Idle] : receipts \in ReceiptInputs}

\* formatted = format_receipts(info['receipts'])
Format(p) ==
    /\ req[p].pc = "format"
    /\ req' = [req EXCEPT ![p].receipts = format_receipts(req[p].raw),
                          ![p].pc = "formatted"]
    /\ UNCHANGED <<assignments, ledger, book, connected, nbeacons, sent, nreq>>

NextFormat == \E p \in Procs : Format(p)

SpecFormat == InitFormat /\ [][NextFormat]_vars

(* ======================================================================= *)
(*                               Properties                                *)
(* ======================================================================= *)

\* request p takes a step (its dispatch or a step of its handler)
StepOf(p) == req'[p] # req[p] /\ req'[p].pc # "idle"

\* the commands of a request's rpc.calls
Cmds(r) == [i \in DOMAIN r.log |-> r.log[i].cmd]
Issued(r, cmd) == \E i \in DOMAIN r.log : r.log[i].cmd = cmd

\* rows held for user u / for account a
Held(u) == len(user_accounts(u))
HeldFor(a) == Copies(RowsOf(a))
Owns(u, a, table) == BagIn(Row(u, a), table)

(* ------------------------------- C1 ------------------------------------ *)

\* C1: no user ever holds more than AccountsPerUser assignments.
C1_CapNeverExceeded == \A u \in Users : Held(u) <= AccountsPerUser

(* ------------------------------- C2 ------------------------------------ *)

\* C2: when a Create by user U whose ledger create succeeded takes its
\* assignment step, the returned account name is then assigned to U and to no
\* other user, whatever label the request carried.
C2_CreateAssignsToCaller ==
    [][\A p \in Procs :
          (req[p].pc = "assign" /\ StepOf(p)) =>
             /\ Owns(req[p].user, req[p].info.name, assignments')
             /\ \A v \in Users \ {req[p].user} :
                   ~Owns(v, req[p].info.name, assignments')]_vars

(* ------------------------------- C3 ------------------------------------ *)

\* the clear of a Remove failed (rejected, or the call raised)
ClearFailed(r) ==
    /\ r.action = "remove_account"
    /\ r.log # <<>>
    /\ r.log[1].cmd = "clear"
    /\ r.log[1].out # "ok"

\* C3: once the clear of Remove(A) has failed, every step of that Remove
\* leaves the assignment table as it is and issues no rm: the request only
\* renders the accounts page.
C3_ClearFailureAborts ==
    [][\A p \in Procs :
          (ClearFailed(req'[p]) /\ StepOf(p)) =>
             /\ assignments' = assignments
             /\ ~Issued(req'[p], "rm")
             /\ req'[p].pc \in {"render", "done"}
             /\ ledger' = ledger]_vars

\* a Remove(A) is done after a failed clear, and A is still assigned
C3_Witness ==
    \E p \in Procs :
       /\ ClearFailed(req[p])
       /\ req[p].pc = "done"
       /\ RowsOf(req[p].arg) # {}

(* ------------------------------- C4 ------------------------------------ *)

\* the clear of a Remove succeeded and its rm failed
RmFailed(r) ==
    /\ r.action = "remove_account"
    /\ Len(r.log) >= 2
    /\ r.log[1] = Entry("clear", r.arg, "ok")
    /\ r.log[2].cmd = "rm"
    /\ r.log[2].out # "ok"

RowDeleted ==
    \E r \in BagToSet(assignments) : CopiesIn(r, assignments') < CopiesIn(r, assignments)

\* C4: a row leaves the table only in the unassign step of a Remove whose
\* calls were clear, then rm, both successful; and once the rm of a Remove
\* has failed, its steps leave the table as it is and issue no second rm.
C4_DeleteOnlyAfterClearAndRm ==
    [][/\ RowDeleted =>
            \E p \in Procs :
               /\ StepOf(p)
               /\ req[p].pc = "unassign"
               /\ req[p].action = "remove_account"
               /\ req[p].log = <<Entry("clear", req[p].arg, "ok"),
                                 Entry("rm", req[p].arg, "ok")>>
       /\ \A p \in Procs :
             (RmFailed(req'[p]) /\ StepOf(p)) =>
                /\ assignments' = assignments
                /\ req'[p].pc \in {"render", "done"}
                /\ Cardinality({i \in DOMAIN req'[p].log :
                                   req'[p].log[i].cmd = "rm"}) = 1]_vars

\* a Remove(A) is done after clear succeeded and rm failed; A is still assigned
C4_Witness ==
    \E p \in Procs :
       /\ RmFailed(req[p])
       /\ req[p].pc = "done"
       /\ RowsOf(req[p].arg) # {}

(* ------------------------------- C5 ------------------------------------ *)

\* a Create of user u that read cap - 1 assignments, was accepted by the
\* ledger and has inserted its assignment
CreatedAtCapMinusOne(r, u) ==
    /\ r.action = "new_account"
    /\ r.user = u
    /\ r.arg = u
    /\ r.ua_len = AccountsPerUser - 1
    /\ r.pc \in {"render", "done"}
    /\ r.info.success

\* C5: of two Creates of one user in flight together, both having read
\* cap - 1 assignments, at most one succeeds: they never both insert.
C5_OneOfTwoRacingCreatesSucceeds ==
    \A p, q \in Procs : \A u \in Users :
       (p # q /\ CreatedAtCapMinusOne(req[p], u)) => ~CreatedAtCapMinusOne(req[q], u)

(* ------------------------------- C6 ------------------------------------ *)

\* a Create past its cap check, which found the user at or over the cap
CapHit(r) ==
    /\ r.action = "new_account"
    /\ r.pc \in {"render", "done"}
    /\ r.ua_len >= AccountsPerUser

\* C6 as stated: a Create at the cap ends with the CapExceeded error and has
\* made no rpc.call at all.
C6_NoRpcAtCap ==
    \A p \in Procs :
       (CapHit(req[p]) /\ req[p].pc = "done") =>
          /\ req[p].error = CapExceeded(AccountsPerUser)
          /\ req[p].log = <<>>

\* C6 amended: every step of a Create whose cap check found the user at or
\* over the cap leaves the assignment table and the ledger's accounts as they
\* are; the request carries the CapExceeded error stating the limit, issues no
\* create, and its only rpc.call is the getaccountinfo that renders the page.
C6_NoCreateAtCap ==
    [][\A p \in Procs :
          (CapHit(req'[p]) /\ StepOf(p)) =>
             /\ req'[p].error = CapExceeded(AccountsPerUser)
             /\ assignments' = assignments
             /\ ledger' = ledger
             /\ ~Issued(req'[p], "create")
             /\ \A i \in DOMAIN req'[p].log : req'[p].log[i].cmd = "getaccountinfo"
             /\ req'[p].pc = "done" =>
                   /\ req'[p].page = "accounts"
                   /\ Cmds(req'[p]) = <<"getaccountinfo">>]_vars

\* a Create at the cap is done: CapExceeded, one getaccountinfo, no create
C6_Witness ==
    \E p \in Procs :
       /\ CapHit(req[p])
       /\ req[p].pc = "done"
       /\ req[p].error = CapExceeded(AccountsPerUser)
       /\ Cmds(req[p]) = <<"getaccountinfo">>
       /\ Held(req[p].user) >= AccountsPerUser

(* ------------------------------- C7 ------------------------------------ *)

\* C7: the unassign step of a Remove(A) that finds no row for A returns the
\* NotFound error, does not fault and leaves the table as it is.
C7_UnassignOfNothingIsNotFound ==
    [][\A p \in Procs :
          (req[p].pc = "unassign" /\ RowsOf(req[p].arg) = {} /\ StepOf(p)) =>
             /\ req'[p].pc # "fault"
             /\ req'[p].error = Err("NotFound")
             /\ assignments' = assignments]_vars

(* ------------------------------- C8 ------------------------------------ *)

\* C8: every account name is in at most one assignment row.
C8_AccountAssignedOnce == \A a \in Names : HeldFor(a) <= 1

(* ------------------------------- C9 ------------------------------------ *)

\* Remove(a) by r: clear has succeeded, rm is not yet issued
MidRemove(r, a) ==
    /\ r.action = "remove_account"
    /\ r.arg = a
    /\ r.pc = "rm"
    /\ r.log = <<Entry("clear", a, "ok")>>

\* C9: nothing in the gateway holds a Connect(a) back while a Remove(a) is
\* between its clear and its rm, nor the rm back once a beacon is out again:
\* with a in the ledger, the connect of a concurrent request can be accepted,
\* and the rm can be issued and accepted while a has an outstanding beacon.
C9_RemoveNotAtomic ==
    \A p, q \in Procs : \A a \in Names :
       (p # q /\ MidRemove(req[p], a) /\ a \in ledger) =>
          /\ (req[q].pc = "connect" /\ req[q].arg = a) => ENABLED ConnectRpc(q, "ok")
          /\ a \in connected => ENABLED RmRpc(p, "ok")

\* Remove(a) is about to issue rm, after its clear succeeded, while a has an
\* outstanding beacon from a Connect(a) the ledger accepted in between
C9_Witness ==
    \E p, q \in Procs : \E a \in Names :
       /\ p # q
       /\ MidRemove(req[p], a)
       /\ a \in connected
       /\ req[q].action = "generate_beacon"
       /\ req[q].arg = a
       /\ req[q].log = <<Entry("connect", a, "ok")>>

(* ------------------------------- C10 ----------------------------------- *)

Commands == {"getaccountinfo", "getaccountreceipts", "connect", "clear", "rm", "create"}

\* the step of p is an rpc.call that raised
RaisedIn(p) ==
    /\ StepOf(p)
    /\ Len(req'[p].log) = Len(req[p].log) + 1
    /\ req'[p].log[Len(req'[p].log)].out = "raise"

LastCmd(r) == r.log[Len(r.log)].cmd

\* C10: an rpc.call that raises, in any of the six commands, gives the
\* failure result "RPC exception" at the wrapper and no fault: after a
\* getaccountinfo the accounts page is rendered with that result; after any
\* other command the request goes on to render the accounts page with the
\* error "RPC exception"; and a request in which a call has raised never
\* faults afterwards.
C10_TransportFailureIsRendered ==
    [][\A p \in Procs :
          /\ RaisedIn(p) =>
                /\ LastCmd(req'[p]) \in Commands
                /\ req'[p].pc # "fault"
                /\ IF LastCmd(req'[p]) = "getaccountinfo"
                   THEN /\ req'[p].accounts = RpcException
                        /\ req'[p].pc = "done"
                        /\ req'[p].page = "accounts"
                   ELSE /\ req'[p].info = RpcException
                        /\ req'[p].error = Err("RPC exception")
                        /\ req'[p].pc = "render"
          /\ ( /\ StepOf(p)
               /\ Running(req[p])
               /\ \E i \in DOMAIN req[p].log : req[p].log[i].out = "raise" ) =>
                /\ req'[p].pc = "done"
                /\ req'[p].page = "accounts"
                /\ req'[p].error = Err("RPC exception")]_vars

\* a request is done, rendered, after its command and then its getaccountinfo
\* both raised
C10_Witness ==
    \E p \in Procs :
       /\ req[p].pc = "done"
       /\ req[p].page = "accounts"
       /\ Len(req[p].log) = 2
       /\ req[p].log[1].out = "raise"
       /\ req[p].log[1].cmd \in Commands \ {"getaccountinfo"}
       /\ req[p].log[2] = Entry("getaccountinfo", NoName, "raise")
       /\ req[p].error = Err("RPC exception")
       /\ req[p].accounts = RpcException

(* ------------------------------- C11 ----------------------------------- *)

\* the create of a Create was accepted and its assignment is inserted: the
\* request is about to query and render the accounts of its user
Created(r) ==
    /\ r.action = "new_account"
    /\ r.pc = "render"
    /\ r.info.success

\* C11: the create command of a Create carries the requested label, the
\* configured cap and the configured start balance, so the account the
\* ledger opens has cap Account.Cap and balance Account.StartBalance; and the
\* account info the caller gets right after a successful Create has an entry
\* for the returned account name, showing that cap and that balance.
C11_CreateThenInfoShowsAccount ==
    [][\A p \in Procs :
          /\ (req[p].pc = "create" /\ StepOf(p)) =>
                /\ LastCmd(req'[p]) = "create"
                /\ req'[p].log[Len(req'[p].log)].account = req[p].arg
                /\ \A n \in ledger' \ ledger :
                      book'[n] = [cap |-> Cap, wad |-> StartBalance]
          /\ (Created(req[p]) /\ StepOf(p) /\ req'[p].accounts.success) =>
                \E e \in req'[p].accounts.accounts :
                   /\ e.name = req[p].info.name
                   /\ e.cap = Wad_str(wad_dict(Cap))
                   /\ e.wad = Wad_str(wad_dict(StartBalance))]_vars

(* ------------------------------- C12 ----------------------------------- *)

\* C12: no beacon string is sent in more than one connect command: any two
\* connect commands, on one account or on two, carry different strings.
C12_BeaconsNeverRepeat ==
    \A i, j \in DOMAIN sent : i # j => sent[i] # sent[j]

\* two Connects on one account, with the one relay location, have issued
\* their connect commands
C12_Witness ==
    \E p, q \in Procs :
       /\ p # q
       /\ req[p].action = "generate_beacon" /\ req[q].action = "generate_beacon"
       /\ req[p].arg = req[q].arg
       /\ Issued(req[p], "connect") /\ Issued(req[q], "connect")
       /\ Len(sent) >= 2

(* ------------------------------- C13 ----------------------------------- *)

\* the fields of an entry other than type and time, in the entry's order
ValueFields(entry) == SelectSeq(entry, LAMBDA kv : kv[1] \notin {K_type, K_time})

\* the pair shown for a field
Shown(kv) ==
    IF kv[1] = K_wad THEN <<L_Wad, Wad_str(kv[2])>>
    ELSE <<title(kv[1]), ToString(kv[2])>>

\* C13: format_receipts returns one display session per input session and
\* one display entry per input entry, in the same order; the values of a
\* display entry are one pair per input field other than type and time, in
\* the order of the input fields, the wad under the label Wad and every other
\* field under its title-cased name; and the input is left as it was.
C13_FormatKeepsShapeAndOrder ==
    [][\A p \in Procs :
          (req[p].pc = "format" /\ req'[p].pc = "formatted") =>
             LET in == req[p].raw
                 out == req'[p].receipts
             IN  /\ req'[p].raw = in
                 /\ DOMAIN out = DOMAIN in
                 /\ \A i \in DOMAIN in :
                       /\ DOMAIN out[i].entries = DOMAIN in[i]
                       /\ \A j \in DOMAIN in[i] :
                             LET fields == ValueFields(in[i][j])
                                 values == out[i].entries[j].values
                             IN  /\ Len(values) = Len(fields)
                                 /\ \A k \in DOMAIN fields :
                                       values[k] = Shown(fields[k])]_vars

\* formatted: two sessions, the second of two entries, among them fields
\* before and after the wad, a type after the values and an entry without
\* type
C13_Witness ==
    \E p \in Procs :
       /\ req[p].pc = "formatted"
       /\ req[p].raw = << <<PayIn>>, <<Paid, Untyped>> >>
       /\ req[p].receipts[1].entries[1].type = <<"P", "a", "y", " ", "I", "n">>
       /\ req[p].receipts[1].entries[1].values = << <<L_Wad, "Wad 5sats">> >>
       /\ req[p].receipts[2].entries[1].values =
             << <<L_Wad, "Wad 5sats">>, <<<<"T", "x", "_", "I", "d">>, "7">> >>
       /\ Len(req[p].receipts[2].entries[2].values) = 2

(* ------------------------------- C14 ----------------------------------- *)

\* account a is assigned to another user than u and not to u
OthersAccount(u, a) ==
    /\ ~Owns(u, a, assignments)
    /\ \E v \in Users \ {u} : Owns(v, a, assignments)

\* the step of p issues a clear, rm or connect for account a
Touches(p, a) ==
    /\ Len(req'[p].log) = Len(req[p].log) + 1
    /\ LastCmd(req'[p]) \in {"clear", "rm", "connect"}
    /\ req'[p].log[Len(req'[p].log)].account = a

\* C14: no step of a Remove(A), Clear(A) or Connect(A) sent by user U, A
\* being assigned to another user V and not to U, issues a clear, rm or
\* connect for A or deletes a row of V for A.
C14_OthersAccountUntouched ==
    [][\A p \in Procs :
          ( /\ req[p].action \in {"remove_account", "clear_beacons", "generate_beacon"}
            /\ Running(req[p])
            /\ OthersAccount(req[p].user, req[p].arg)
            /\ StepOf(p) ) =>
              /\ ~Touches(p, req[p].arg)
              /\ \A v \in Users \ {req[p].user} :
                    CopiesIn(Row(v, req[p].arg), assignments') >=
                       CopiesIn(Row(v, req[p].arg), assignments)]_vars

(* ------------------------------- C15 ----------------------------------- *)

\* no request is being served
Quiet == \A p \in Procs : ~Running(req[p])

\* C15: whenever no request is being served, every assignment row names an
\* account the ledger holds, and every account the ledger holds has an
\* assignment row.
C15_TableMatchesLedger ==
    Quiet =>
       /\ \A row \in BagToSet(assignments) : row.account \in ledger
       /\ \A n \in ledger : RowsOf(n) # {}

(* ------------------------------- C16 ----------------------------------- *)

\* the order in which accounts() looks for the form keys
KeyOrder == <<"list_receipts", "generate_beacon", "clear_beacons",
              "remove_account", "new_account">>

\* the first key of KeyOrder the form carries
FirstPresent(form) ==
    IF \A i \in DOMAIN KeyOrder : KeyOrder[i] \notin form THEN "unknown"
    ELSE KeyOrder[CHOOSE i \in DOMAIN KeyOrder :
                     /\ KeyOrder[i] \in form
                     /\ \A j \in DOMAIN KeyOrder : KeyOrder[j] \in form => i <= j]

\* the ledger commands of an action (getaccountinfo renders the accounts page)
CommandsOf(act) ==
    {"getaccountinfo"} \cup
       CASE act = "list_receipts" -> {"getaccountreceipts"}
         [] act = "generate_beacon" -> {"connect"}
         [] act = "clear_beacons" -> {"clear"}
         [] act = "remove_account" -> {"clear", "rm"}
         [] act = "new_account" -> {"create"}
         [] OTHER -> {}

\* C16: every step of a POST of a logged-in user belongs to one action, the
\* one of the first key its form carries in the order list_receipts,
\* generate_beacon, clear_beacons, remove_account, new_account, whatever
\* other keys are there: the request issues no command of another action.
\* With none of the keys the request issues no command but getaccountinfo,
\* changes neither the table nor the ledger and renders the accounts page
\* with the error "unknown action".
C16_OneActionPerPost ==
    [][\A p \in Procs :
          (StepOf(p) /\ req'[p].method = "POST" /\ req'[p].user \in Users) =>
             LET r == req'[p] IN
             /\ r.action = FirstPresent(r.form)
             /\ \A i \in DOMAIN r.log : r.log[i].cmd \in CommandsOf(r.action)
             /\ r.form \cap FormKeys = {} =>
                   /\ r.action = "unknown"
                   /\ r.error = Err("unknown action")
                   /\ assignments' = assignments
                   /\ ledger' = ledger /\ book' = book
                   /\ connected' = connected /\ sent' = sent
                   /\ r.pc \in {"render", "done"}
                   /\ r.pc = "done" => r.page = "accounts"]_vars

\* a POST carrying generate_beacon, remove_account and new_account is done:
\* it connected, and neither removed the account nor created one
C16_Witness ==
    \E p \in Procs :
       /\ req[p].pc = "done"
       /\ req[p].method = "POST"
       /\ req[p].form = {"generate_beacon", "remove_account", "new_account"}
       /\ Cmds(req[p]) = <<"connect", "getaccountinfo">>
       /\ req[p].log[1].out = "ok"
       /\ req[p].arg \in ledger
       /\ RowsOf(req[p].arg) # {}
       /\ Cardinality(ledger) = 1

(* ------------------------------- C17 ----------------------------------- *)

\* the create of a Create failed: rejected by the ledger, or the call raised
CreateFailed(r) ==
    /\ r.action = "new_account"
    /\ r.log # <<>>
    /\ r.log[1].cmd = "create"
    /\ r.log[1].out # "ok"

RowAdded ==
    \E u \in Users, a \in Names \cup {NoName} :
       CopiesIn(Row(u, a), assignments') > CopiesIn(Row(u, a), assignments)

\* C17: once the create of a Create has failed, every step of that request
\* leaves the assignment table as it is, and the request renders the
\* accounts page with the ledger's error message, or with "RPC exception"
\* when the call raised; and a row enters the table only in the assignment
\* step of a Create whose create reported success.
C17_FailedCreateAssignsNothing ==
    [][/\ \A p \in Procs :
             (CreateFailed(req'[p]) /\ StepOf(p)) =>
                /\ assignments' = assignments
                /\ req'[p].pc \in {"render", "done"}
                /\ req'[p].error = IF req'[p].log[1].out = "reject"
                                   THEN Err(LedgerRejected.error)
                                   ELSE Err("RPC exception")
                /\ req'[p].pc = "done" => req'[p].page = "accounts"
       /\ RowAdded =>
             \E p \in Procs :
                /\ StepOf(p)
                /\ req[p].pc = "assign"
                /\ req[p].log = <<Entry("create", req[p].arg, "ok")>>
                /\ req[p].info.success]_vars

\* a Create is done after its create failed, its user still without a row
C17_Witness ==
    \E p \in Procs :
       /\ CreateFailed(req[p])
       /\ req[p].pc = "done"
       /\ req[p].arg = req[p].user
       /\ req[p].error = Err("ledger error")
       /\ Held(req[p].user) = 0

(* ------------------------------- C18 ----------------------------------- *)

\* C18: a request without login, whatever its method and form keys, is
\* answered in its one step by the redirect to the login page: it issues no
\* ledger command and changes neither the table nor the ledger.
C18_NoLoginOnlyRedirects ==
    [][\A p \in Procs :
          (StepOf(p) /\ req'[p].user \notin Users) =>
             /\ req'[p].pc = "done"
             /\ req'[p].page = redirect_path("/login")
             /\ req'[p].log = <<>>
             /\ assignments' = assignments
             /\ ledger' = ledger /\ book' = book
             /\ connected' = connected /\ sent' = sent]_vars

\* a POST without login that carries remove_account and new_account has been
\* redirected, while a user's account is there to be removed
C18_Witness ==
    \E p \in Procs :
       /\ req[p].user = Anonymous
       /\ req[p].method = "POST"
       /\ req[p].form = {"remove_account", "new_account"}
       /\ req[p].pc = "done"
       /\ req[p].page = redirect_path("/login")
       /\ ledger # {}
       /\ assignments # EmptyBag

====
